---------------------------- MODULE Spec2Model ----------------------------
(***************************************************************************)
(* A model of SPR (Swagger Proxy Runner), cmd/spr/main.go.                 *)
(*                                                                         *)
(* The program reads an OpenAPI document, counts the requests it is going  *)
(* to make, starts `threads` worker goroutines that range over an          *)
(* unbuffered channel, expands every allowed operation of the document     *)
(* into request descriptors (one, or one per integer fuzz value), sends    *)
(* them over the channel, closes it and waits for the workers.             *)
(*                                                                         *)
(* Text (URLs, bodies) is a sequence of atoms: an atom is a run of         *)
(* characters with no structure of interest ("/items/", "id", "1000") or   *)
(* one of the characters the program's string operations look at           *)
(* ("{", "}", "/", "?", "&", "=", ...).  JSON values of the document are   *)
(* tagged records, and so are the values getDummyValue synthesises.        *)
(***************************************************************************)
EXTENDS Integers, Sequences, FiniteSets

(***************************************************************************)
(* Bounds of the model.                                                    *)
(***************************************************************************)
\* the largest -threads value the worker-pool configurations use
MaxThreads == 2

(***************************************************************************)
(* JSON values of the document, as json.Unmarshal leaves them in a         *)
(* map[string]interface{}: a key that is absent, a value that is not an    *)
(* object, or an object.                                                   *)
(***************************************************************************)
Absent == [j |-> "absent"]

NotObj == [j |-> "scalar"]

IsMap(v) == v.j = "map"

\* a schema object: its "type" and "format" strings ("" when the key is
\* missing or not a string), its "items" and its "properties"
Sch(t, f, items, props) ==
  [j |-> "map", type |-> t, format |-> f, items |-> items, properties |-> props]

\* an object whose keys are the domain of the function m
Obj(m) == [j |-> "map", m |-> m]

NoProps == <<>>

Leaf(t) == Sch(t, "", Absent, Absent)

(***************************************************************************)
(* Values: what getDummyValue returns (an interface{}).  PanicV stands for *)
(* the run-time panic of a failed type assertion.                          *)
(***************************************************************************)
NoValue == [k |-> "nil"]

StrV(s) == [k |-> "str", s |-> s]

IntV(n) == [k |-> "int", n |-> n]

FloatV(n) == [k |-> "float", n |-> n]

BoolV(b) == [k |-> "bool", b |-> b]

ArrV(e) == [k |-> "arr", e |-> e]

ObjV(m) == [k |-> "obj", m |-> m]

PanicV == [k |-> "panic"]

IsPanic(v) == v.k = "panic"

(***************************************************************************)
(* Program constants.                                                      *)
(***************************************************************************)
staticUUID == "11111111-1111-1111-1111-111111111111"

intFuzzValues ==
  << 1, 10, 100, 1000, 10000, 100000, 1000000, 10000000,
     2, 20, 200, 2000, 20000, 200000, 2000000, 20000000,
     5, 50, 500, 5000, 50000, 500000, 5000000, 50000000,
     9, 90, 900, 9000, 90000, 900000, 9000000, 90000000 >>

\* the value an integer gets when it is not fuzzed, also the single
\* "fuzz value" of an operation that is not fuzzed
DefaultInt == 1000

Methods == {"GET", "POST", "PUT", "DELETE", "PATCH"}

BodyMethods == {"POST", "PUT", "PATCH"}

(***************************************************************************)
(* Text helpers.                                                           *)
(***************************************************************************)
\* the names of the documents of the model, in byte order (the order
\* sort.Strings gives the keys of a map)
NameOrder == <<"id", "n", "q">>

SortedKeys(S) == SelectSeq(NameOrder, LAMBDA n : n \in S)

Digits == <<"0", "1", "2", "3", "4", "5", "6", "7", "8", "9">>

RECURSIVE IntText(_)
\* strconv's decimal form of a non-negative integer, one atom per digit
IntText(n) ==
  IF n < 10 THEN <<Digits[n + 1]>>
  ELSE IntText(n \div 10) \o <<Digits[(n % 10) + 1]>>

RECURSIVE Replace(_, _, _)
\* strings.Replace(s, old, new, -1), old not empty
Replace(s, old, new) ==
  IF Len(s) < Len(old) THEN s
  ELSE IF SubSeq(s, 1, Len(old)) = old
       THEN new \o Replace(SubSeq(s, Len(old) + 1, Len(s)), old, new)
       ELSE <<Head(s)>> \o Replace(Tail(s), old, new)

RECURSIVE TrimRightSlash(_)
\* strings.TrimRight(s, "/")
TrimRightSlash(s) ==
  IF s # <<>> /\ s[Len(s)] = "/" THEN TrimRightSlash(SubSeq(s, 1, Len(s) - 1))
  ELSE s

normalizeHost(host) == TrimRightSlash(host)

RECURSIVE Sprint(_)
RECURSIVE SprintFields(_, _)
\* fmt.Sprint(map): "map[k:v k:v]", keys sorted
SprintFields(m, keys) ==
  IF keys = <<>> THEN <<>>
  ELSE <<Head(keys), ":">> \o Sprint(m[Head(keys)])
       \o (IF Len(keys) > 1 THEN <<" ">> ELSE <<>>)
       \o SprintFields(m, Tail(keys))

\* fmt.Sprint(value)
Sprint(v) ==
  CASE v.k = "str" -> <<v.s>>
    [] v.k = "int" -> IntText(v.n)
    [] v.k = "float" -> IntText(v.n)
    [] v.k = "bool" -> <<IF v.b THEN "true" ELSE "false">>
    [] v.k = "arr" -> <<"[">> \o Sprint(v.e) \o <<"]">>
    [] v.k = "obj" -> <<"map", "[">> \o SprintFields(v.m, SortedKeys(DOMAIN v.m)) \o <<"]">>
    [] OTHER -> <<"<nil>">>

RECURSIVE MarshalJSON(_)
RECURSIVE MarshalFields(_, _)
MarshalFields(m, keys) ==
  IF keys = <<>> THEN <<>>
  ELSE <<"\"", Head(keys), "\"", ":">> \o MarshalJSON(m[Head(keys)])
       \o (IF Len(keys) > 1 THEN <<",">> ELSE <<>>)
       \o MarshalFields(m, Tail(keys))

\* json.Marshal(value): object keys sorted
MarshalJSON(v) ==
  CASE v.k = "str" -> <<"\"", v.s, "\"">>
    [] v.k = "int" -> IntText(v.n)
    [] v.k = "float" -> IntText(v.n)
    [] v.k = "bool" -> <<IF v.b THEN "true" ELSE "false">>
    [] v.k = "arr" -> <<"[">> \o MarshalJSON(v.e) \o <<"]">>
    [] v.k = "obj" -> <<"{">> \o MarshalFields(v.m, SortedKeys(DOMAIN v.m)) \o <<"}">>
    [] OTHER -> <<"null">>

\* url.QueryEscape of one atom
EscapeAtom(a) ==
  CASE a = "[" -> "%5B"
    [] a = "]" -> "%5D"
    [] a = "{" -> "%7B"
    [] a = "}" -> "%7D"
    [] a = ":" -> "%3A"
    [] a = "\"" -> "%22"
    [] a = "<nil>" -> "%3Cnil%3E"
    [] a = " " -> "+"
    [] a = "%zz" -> "%25zz"
    [] OTHER -> a

QueryEscape(s) == [i \in 1..Len(s) |-> EscapeAtom(s[i])]

RECURSIVE EncodeValues(_, _, _)
\* the "k=v" pairs of one key, with "&" before each pair but the first
EncodeValues(key, vals, first) ==
  IF vals = <<>> THEN <<>>
  ELSE (IF first THEN <<>> ELSE <<"&">>) \o <<EscapeAtom(key), "=">>
       \o QueryEscape(Head(vals)) \o EncodeValues(key, Tail(vals), FALSE)

RECURSIVE EncodeKeys(_, _, _)
EncodeKeys(q, keys, first) ==
  IF keys = <<>> THEN <<>>
  ELSE EncodeValues(Head(keys), q[Head(keys)], first)
       \o EncodeKeys(q, Tail(keys), FALSE)

\* url.Values.Encode(): keys sorted, each key's values in the order added
Encode(q) == EncodeKeys(q, SortedKeys(DOMAIN q), TRUE)

\* url.Values.Add(key, value)
ValuesAdd(q, key, value) ==
  IF key \in DOMAIN q THEN [q EXCEPT ![key] = Append(@, value)]
  ELSE [x \in DOMAIN q \cup {key} |-> IF x = key THEN <<value>> ELSE q[x]]

\* m[key] = value on a Go map
MapPut(m, key, value) ==
  [x \in DOMAIN m \cup {key} |-> IF x = key THEN value ELSE m[x]]


(***************************************************************************)
(* getDummyValue.                                                          *)
(***************************************************************************)
\* IntegerCase without the second look at the overrides
IntegerCaseNoOverride(intFuzz, fuzzValue, paramName, paramOverrides) ==
  IF intFuzz THEN IntV(fuzzValue) ELSE IntV(DefaultInt)

\* the "integer" case of the switch on the schema's type
IntegerCase(intFuzz, fuzzValue, paramName, paramOverrides) ==
  IF intFuzz
  THEN IF paramName \in DOMAIN paramOverrides
       THEN StrV(paramOverrides[paramName])
       ELSE IntV(fuzzValue)
  ELSE IntV(DefaultInt)

RECURSIVE getDummyValue(_, _, _, _, _, _)
\* the loop over a schema's properties: prop.(map[string]interface{})
\* panics on a property that is not an object, and a panic below it
\* unwinds through the loop
PropertiesLoop(properties, intFuzz, fuzzValue, paramOverrides) ==
  IF \E key \in DOMAIN properties : ~IsMap(properties[key]) THEN PanicV
  ELSE LET result == [key \in DOMAIN properties |->
                        getDummyValue(properties[key], NoValue, intFuzz,
                                      fuzzValue, key, paramOverrides)]
       IN  IF \E key \in DOMAIN result : IsPanic(result[key]) THEN PanicV
           ELSE ObjV(result)

\* the "array" case: schema["items"].(map[string]interface{}) panics when
\* items is missing or not an object
ArrayCase(schema, intFuzz, fuzzValue, paramName, paramOverrides) ==
  IF ~IsMap(schema.items) THEN PanicV
  ELSE LET e == getDummyValue(schema.items, NoValue, intFuzz, fuzzValue,
                              paramName, paramOverrides)
       IN  IF IsPanic(e) THEN PanicV ELSE ArrV(e)

getDummyValue(schema, example, intFuzz, fuzzValue, paramName, paramOverrides) ==
  IF paramName \in DOMAIN paramOverrides /\ ~intFuzz
    THEN StrV(paramOverrides[paramName])
  ELSE IF example.k # "nil" THEN example
  ELSE IF schema.format = "uuid" THEN StrV(staticUUID)
  ELSE IF schema.type = "" /\ IsMap(schema.properties)
    THEN PropertiesLoop(schema.properties.m, intFuzz, fuzzValue, paramOverrides)
  ELSE CASE schema.type = "string" -> StrV("test_string")
         [] schema.type = "integer" ->
              IntegerCase(intFuzz, fuzzValue, paramName, paramOverrides)
         [] schema.type = "number" -> FloatV(1)
         [] schema.type = "boolean" -> BoolV(TRUE)
         [] schema.type = "array" ->
              ArrayCase(schema, intFuzz, fuzzValue, paramName, paramOverrides)
         [] schema.type = "object" ->
              IF IsMap(schema.properties)
              THEN PropertiesLoop(schema.properties.m, intFuzz, fuzzValue,
                                  paramOverrides)
              ELSE ObjV(NoProps)
         [] OTHER ->
              IF IsMap(schema.properties)
              THEN PropertiesLoop(schema.properties.m, intFuzz, fuzzValue,
                                  paramOverrides)
              ELSE StrV("test_value")

(***************************************************************************)
(* Parameters, operations, path items.                                     *)
(***************************************************************************)
Param(name, in, schema, example) ==
  [Name |-> name, In |-> in, Schema |-> schema, Example |-> example]

\* an *Operation that is nil
NilOp == [defined |-> FALSE, Parameters |-> <<>>, RequestBody |-> Absent]

Op(params, body) == [defined |-> TRUE, Parameters |-> params, RequestBody |-> body]

\* a requestBody object with the given "content" value
ReqBody(content) == [j |-> "map", content |-> content]

\* a content object with the given "application/json" value
Content(appjson) == [j |-> "map", appjson |-> appjson]

\* a media-type object with the given "schema" value
Media(schema) == [j |-> "map", schema |-> schema]

\* append(pathParams, operation.Parameters...)
AllParams(pathParams, operation) == pathParams \o operation.Parameters

\* hasIntegerParams: BoolV, or PanicV where jsonContent.(map[string]interface{})
\* fails.  The parameters are looked at first and end the function when one
\* is an integer, so the body is then never looked at.
hasIntegerParams(operation, pathParams) ==
  LET allParams == AllParams(pathParams, operation)
      body == operation.RequestBody
  IN  IF \E i \in 1..Len(allParams) : allParams[i].Schema.type = "integer"
        THEN BoolV(TRUE)
      ELSE IF ~IsMap(body) THEN BoolV(FALSE)
      ELSE IF ~IsMap(body.content) THEN BoolV(FALSE)
      ELSE IF body.content.appjson.j = "absent" THEN BoolV(FALSE)
      ELSE IF ~IsMap(body.content.appjson) THEN PanicV
      ELSE IF IsMap(body.content.appjson.schema)
              /\ body.content.appjson.schema.type = "integer"
        THEN BoolV(TRUE)
      ELSE BoolV(FALSE)

\* FuzzValuesOf without the eligibility check
FuzzValuesOfAnyOperation(intFuzz, hasIntegers) ==
  IF intFuzz THEN intFuzzValues ELSE <<DefaultInt>>

\* the fuzz values of one operation
FuzzValuesOf(intFuzz, hasIntegers) ==
  IF intFuzz /\ hasIntegers THEN intFuzzValues ELSE <<DefaultInt>>

\* CountOf without the eligibility check
CountOfAnyOperation(intFuzz, hasIntegers) ==
  IF intFuzz THEN Len(intFuzzValues) ELSE 1

\* what the counting loop adds for one operation
CountOf(intFuzz, hasIntegers) ==
  IF intFuzz /\ hasIntegers THEN Len(intFuzzValues) ELSE 1

(***************************************************************************)
(* The construction of one request.                                        *)
(***************************************************************************)
Placeholder(name) == <<"{", name, "}">>

\* FoldsIntoBody without the check of the parameter's location
FoldsAnyLocation(method, param) == method \in BodyMethods

\* whether a parameter goes to the body instead of the URL
FoldsIntoBody(method, param) == method \in BodyMethods /\ param.In = "query"

\* one round of the loop over allParams, on the accumulator
\* [url, query, bodyParams, values, panicked]
ParamStep(acc, method, param, intFuzz, fuzzValue, paramOverrides) ==
  LET value == getDummyValue(param.Schema, param.Example, intFuzz, fuzzValue,
                             param.Name, paramOverrides)
  IN  IF IsPanic(value) THEN [acc EXCEPT !.panicked = TRUE]
      ELSE LET a == [acc EXCEPT !.values = Append(@, value)]
           IN  IF FoldsIntoBody(method, param)
                 THEN [a EXCEPT !.bodyParams = MapPut(@, param.Name, value)]
               ELSE IF param.In = "path"
                 THEN [a EXCEPT !.url = Replace(@, Placeholder(param.Name),
                                                Sprint(value))]
               ELSE IF param.In = "query"
                 THEN [a EXCEPT !.query = ValuesAdd(@, param.Name, Sprint(value))]
               ELSE a

RECURSIVE ParamLoop(_, _, _, _, _, _)
ParamLoop(acc, method, params, intFuzz, fuzzValue, paramOverrides) ==
  IF params = <<>> \/ acc.panicked THEN acc
  ELSE ParamLoop(ParamStep(acc, method, Head(params), intFuzz, fuzzValue,
                           paramOverrides),
                 method, Tail(params), intFuzz, fuzzValue, paramOverrides)

\* the request body: [panicked, body, bodyData]
RequestBodyOf(method, operation, bodyParams, intFuzz, fuzzValue, paramOverrides) ==
  LET rb == operation.RequestBody
      crash == [panicked |-> TRUE, body |-> <<>>, bodyData |-> NoValue]
  IN  IF IsMap(rb)
      THEN IF ~IsMap(rb.content) THEN crash
           ELSE IF rb.content.appjson.j = "absent"
             THEN [panicked |-> FALSE, body |-> <<>>, bodyData |-> NoValue]
           ELSE IF ~IsMap(rb.content.appjson) THEN crash
           ELSE IF ~IsMap(rb.content.appjson.schema) THEN crash
           ELSE LET bodyData == getDummyValue(rb.content.appjson.schema, NoValue,
                                              intFuzz, fuzzValue, "", paramOverrides)
                IN  IF IsPanic(bodyData) THEN crash
                    ELSE [panicked |-> FALSE, body |-> MarshalJSON(bodyData),
                          bodyData |-> bodyData]
      ELSE IF method \in BodyMethods
      THEN IF DOMAIN bodyParams # {}
           THEN [panicked |-> FALSE, body |-> MarshalJSON(ObjV(bodyParams)),
                 bodyData |-> NoValue]
           ELSE [panicked |-> FALSE, body |-> <<"{", "}">>, bodyData |-> NoValue]
      ELSE [panicked |-> FALSE, body |-> <<>>, bodyData |-> NoValue]

\* the body of the loop over fuzzValues, up to the send: the descriptor, with
\* the values synthesised on the way, or panicked
BuildRequest(normalizedHost, pathItem, method, operation, intFuzz, fuzzValue, paramOverrides, headerMap) ==
  LET allParams == AllParams(pathItem.Parameters, operation)
      acc == ParamLoop([url |-> normalizedHost \o pathItem.path, query |-> <<>>,
                        bodyParams |-> <<>>, values |-> <<>>, panicked |-> FALSE],
                       method, allParams, intFuzz, fuzzValue, paramOverrides)
      requestURL == IF DOMAIN acc.query # {}
                    THEN acc.url \o <<"?">> \o Encode(acc.query)
                    ELSE acc.url
      rb == RequestBodyOf(method, operation, acc.bodyParams, intFuzz, fuzzValue,
                          paramOverrides)
  IN  IF acc.panicked \/ rb.panicked THEN [panicked |-> TRUE]
      ELSE [panicked |-> FALSE, method |-> method, url |-> requestURL,
            body |-> rb.body, headerMap |-> headerMap,
            values |-> acc.values, bodyData |-> rb.bodyData]


\* http.NewRequest fails when url.Parse does; of the URLs of the model those
\* with the invalid percent escape "%zz" in them
NewRequestError(req) == \E i \in 1..Len(req.url) : req.url[i] = "%zz"

\* request.Header after the default Content-Type and the custom headers
HeaderOf(headerMap) ==
  [h \in DOMAIN headerMap \cup {"Content-Type"} |->
     IF h \in DOMAIN headerMap THEN headerMap[h] ELSE "application/json"]

(***************************************************************************)
(* The documents and flags the model runs the program on.                  *)
(***************************************************************************)
Ops(get, post, put, delete, patch) ==
  [m \in Methods |-> CASE m = "GET" -> get
                       [] m = "POST" -> post
                       [] m = "PUT" -> put
                       [] m = "DELETE" -> delete
                       [] m = "PATCH" -> patch]

Item(path, params, ops) == [path |-> path, Parameters |-> params, ops |-> ops]

P(name, in, t) == Param(name, in, Leaf(t), NoValue)

\* /items/{id}: the path parameter is an integer
ItemsPath ==
  Item(<<"/items/", "{", "id", "}">>, <<>>,
       Ops(Op(<<P("id", "path", "integer")>>, Absent),
           Op(<<P("id", "path", "integer"), P("q", "query", "string"),
                P("n", "query", "integer")>>, Absent),
           NilOp,
           Op(<<P("id", "path", "string")>>, Absent),
           NilOp))

\* /things: request bodies, parameters of every type
ThingsPath ==
  Item(<<"/things">>, <<>>,
       Ops(Op(<<Param("q", "query",
                      Sch("", "", Absent, Obj([n |-> Leaf("integer")])), NoValue),
                P("n", "header", "integer")>>, Absent),
           Op(<<P("q", "query", "string")>>,
              ReqBody(Content(Media(
                Sch("object", "", Absent,
                    Obj([n |-> Leaf("integer"),
                         q |-> Sch("array", "", Leaf("integer"), Absent),
                         id |-> Sch("thing", "", Absent,
                                    Obj([q |-> Leaf("boolean")]))])))))),
           Op(<<>>, ReqBody(Content(Media(Leaf("integer"))))),
           Op(<<P("q", "query", "number"), P("n", "query", "unknown")>>, Absent),
           Op(<<P("q", "query", "boolean")>>,
              [j |-> "map", content |-> [j |-> "map", appjson |-> Absent]])))

\* /c/{id}: path-level and operation-level parameters of the same name
CollidePath ==
  Item(<<"/c/", "{", "id", "}">>,
       <<P("id", "path", "string"), P("q", "query", "string")>>,
       Ops(Op(<<P("id", "path", "integer"), P("q", "query", "integer")>>, Absent),
           Op(<<P("id", "path", "boolean"), P("q", "query", "integer")>>, Absent),
           NilOp,
           NilOp,
           Op(<<>>, Absent)))

\* /u/{id}/x: no parameter is declared for the placeholder
UnmatchedPath ==
  Item(<<"/u/", "{", "id", "}", "/x">>, <<>>,
       Ops(Op(<<P("q", "query", "string")>>, Absent),
           NilOp,
           Op(<<>>, Absent),
           Op(<<P("id", "query", "integer")>>, Absent),
           NilOp))

\* /e/{id}: integer parameters with an example, with the uuid format
ExamplePath ==
  Item(<<"/e/", "{", "id", "}">>, <<>>,
       Ops(Op(<<Param("id", "path", Leaf("integer"), StrV("ex")),
                Param("q", "query", Sch("integer", "uuid", Absent, Absent),
                      NoValue)>>, Absent),
           NilOp,
           Op(<<Param("id", "path", Leaf("integer"), NoValue),
                Param("n", "query", Leaf("integer"), FloatV(7))>>, Absent),
           NilOp,
           NilOp))

\* /m: schema nodes that are not of the expected shape
MalformedPath ==
  Item(<<"/m">>, <<>>,
       Ops(Op(<<P("q", "query", "array")>>, Absent),
           Op(<<>>, ReqBody(Content(Media(
                      Sch("object", "", Absent, Obj([n |-> NotObj])))))),
           Op(<<>>, ReqBody(Absent)),
           Op(<<>>, ReqBody(Content(NotObj))),
           Op(<<>>, ReqBody(Content(Media(Absent))))))

\* /a/{id} and /b%zz: two paths, the second one no URL
APath ==
  Item(<<"/a/", "{", "id", "}">>, <<>>,
       Ops(Op(<<P("id", "path", "integer")>>, Absent),
           NilOp, NilOp, NilOp, NilOp))

BPath ==
  Item(<<"/b", "%zz">>, <<>>,
       Ops(Op(<<>>, Absent),
           NilOp,
           NilOp,
           Op(<<P("q", "query", "string")>>, Absent),
           NilOp))

\* a small well-formed document with nothing to fuzz
PlainPath ==
  Item(<<"/p">>, <<>>,
       Ops(Op(<<P("q", "query", "string")>>, Absent),
           Op(<<P("q", "query", "string")>>, Absent),
           NilOp,
           NilOp,
           NilOp))

Docs ==
  { {ItemsPath}, {ThingsPath}, {CollidePath}, {UnmatchedPath}, {ExamplePath},
    {MalformedPath}, {APath, BPath} }

PoolDocs == { {PlainPath, BPath}, {PlainPath, APath, BPath}, {MalformedPath} }

MethodSets == { {"GET"}, {"POST", "PUT", "PATCH"}, Methods }

OverrideSets == { <<>>, [id |-> "42"] }

Host == <<"https://api.example.com", "/">>

HeaderMap == [Authorization |-> "Bearer 1337"]

Config(doc, ms, fuzz, v, t, ovr) ==
  [api |-> doc, methodsMap |-> ms, intFuzzing |-> fuzz, verbose |-> v,
   threads |-> t, paramOverrideMap |-> ovr]

\* every document, flag and override, on one worker
PlanConfigs ==
  { Config(doc, ms, fuzz, FALSE, 1, ovr) :
      doc \in Docs, ms \in MethodSets, fuzz \in BOOLEAN, ovr \in OverrideSets }

\* the worker pool: 1..MaxThreads workers, both output modes, on the small
\* documents
PoolConfigs ==
  { Config(doc, ms, FALSE, v, t, <<>>) :
      doc \in PoolDocs, ms \in MethodSets, v \in BOOLEAN, t \in 1..MaxThreads }


(***************************************************************************)
(* The state of a run.                                                     *)
(***************************************************************************)
VARIABLES
  api, methodsMap, intFuzzing, verbose, threads, paramOverrideMap,
  pc,             \* where main is: "count", "produce", "wait", "done", "panic"
  totalRequests,  \* the count made before the workers start
  bar,            \* the progress bar's counter (non-verbose mode)
  printed,        \* the lines written to the output (verbose mode)
  todoPaths,      \* the path items the outer loop has still to visit
  curItem,        \* the path item of the current round of the outer loop
  todoMethods,    \* the operations of curItem the inner loop has still to visit
  curOp,          \* the operation being expanded: method, fuzzValues, idx
  requestChan,    \* the descriptor main is blocked sending, or NoReq
  closed,         \* whether requestChan is closed
  workers,        \* each worker goroutine: pc, req, header
  enqueued,       \* the plan items sent over the channel, in order
  dispatched,     \* plan item -> the number of outcomes recorded for it
  kinds           \* the kinds of outcome recorded so far

config == <<api, methodsMap, intFuzzing, verbose, threads, paramOverrideMap>>

plan == <<todoPaths, curItem, todoMethods, curOp>>

log == <<bar, printed, dispatched, kinds>>

vars == <<config, pc, totalRequests, plan, requestChan, closed, workers, enqueued, log>>

NoReq == [none |-> TRUE]

NoOp == [none |-> TRUE]

NoItem == [none |-> TRUE]

Idle == [pc |-> "idle", req |-> NoReq, header |-> <<>>]

\* the operations the two loops over the document do not skip
Allowed(item) == {m \in Methods : item.ops[m].defined /\ m \in methodsMap}

Eligible == {x \in api \X Methods : x[2] \in Allowed(x[1])}

HasIntegers(x) == hasIntegerParams(x[1].ops[x[2]], x[1].Parameters)

RECURSIVE SumCounts(_)
SumCounts(S) ==
  IF S = {} THEN 0
  ELSE LET x == CHOOSE y \in S : TRUE
       IN  CountOf(intFuzzing, HasIntegers(x).b) + SumCounts(S \ {x})

BagAdd(b, id) ==
  [x \in DOMAIN b \cup {id} |-> IF x = id THEN (IF id \in DOMAIN b THEN b[id] + 1 ELSE 1) ELSE b[x]]

InitWith(c) ==
  /\ api = c.api
  /\ methodsMap = c.methodsMap
  /\ intFuzzing = c.intFuzzing
  /\ verbose = c.verbose
  /\ threads = c.threads
  /\ paramOverrideMap = c.paramOverrideMap
  /\ pc = "count"
  /\ totalRequests = 0
  /\ bar = 0
  /\ printed = 0
  /\ todoPaths = {}
  /\ curItem = NoItem
  /\ todoMethods = {}
  /\ curOp = NoOp
  /\ requestChan = NoReq
  /\ closed = FALSE
  /\ workers = [w \in 1..c.threads |-> [pc |-> "unstarted", req |-> NoReq, header |-> <<>>]]
  /\ enqueued = <<>>
  /\ dispatched = <<>>
  /\ kinds = {}

Init == \E c \in PlanConfigs : InitWith(c)

PoolInit == \E c \in PoolConfigs : InitWith(c)

(***************************************************************************)
(* main.                                                                   *)
(***************************************************************************)
\* the counting loop, the progress bar, the channel and the workers' start
Count ==
  /\ pc = "count"
  /\ \A x \in Eligible : ~IsPanic(HasIntegers(x))
  /\ totalRequests' = SumCounts(Eligible)
  /\ workers' = [w \in 1..threads |-> Idle]
  /\ todoPaths' = api
  /\ pc' = "produce"
  /\ UNCHANGED <<config, curItem, todoMethods, curOp, requestChan, closed, enqueued, log>>

\* the counting loop panics in hasIntegerParams
CountPanic ==
  /\ pc = "count"
  /\ \E x \in Eligible : IsPanic(HasIntegers(x))
  /\ pc' = "panic"
  /\ UNCHANGED <<config, totalRequests, plan, requestChan, closed, workers, enqueued, log>>

\* the outer loop takes a path item (a Go map: in any order)
NextPath(item) ==
  /\ pc = "produce"
  /\ curOp = NoOp
  /\ todoMethods = {}
  /\ item \in todoPaths
  /\ curItem' = item
  /\ todoPaths' = todoPaths \ {item}
  /\ todoMethods' = Allowed(item)
  /\ UNCHANGED <<config, pc, totalRequests, curOp, requestChan, closed, workers, enqueued, log>>

\* the inner loop takes an operation that is defined and allowed
StartOp(m) ==
  /\ pc = "produce"
  /\ curOp = NoOp
  /\ m \in todoMethods
  /\ todoMethods' = todoMethods \ {m}
  /\ LET hasIntegers == hasIntegerParams(curItem.ops[m], curItem.Parameters)
     IN  IF IsPanic(hasIntegers)
         THEN pc' = "panic" /\ UNCHANGED curOp
         ELSE /\ curOp' = [method |-> m, idx |-> 1,
                           fuzzValues |-> FuzzValuesOf(intFuzzing, hasIntegers.b)]
              /\ UNCHANGED pc
  /\ UNCHANGED <<config, totalRequests, todoPaths, curItem, requestChan, closed, workers, enqueued, log>>

\* the descriptor of the current fuzz value
Built ==
  BuildRequest(normalizeHost(Host), curItem, curOp.method, curItem.ops[curOp.method], intFuzzing, curOp.fuzzValues[curOp.idx], paramOverrideMap, HeaderMap)

\* one round of the loop over fuzzValues, up to the send
Build ==
  /\ pc = "produce"
  /\ curOp # NoOp
  /\ requestChan = NoReq
  /\ ~Built.panicked
  /\ requestChan' = [id |-> [path |-> curItem.path, method |-> curOp.method,
                             idx |-> curOp.idx,
                             fuzzValue |-> curOp.fuzzValues[curOp.idx]],
                     d |-> Built]
  /\ UNCHANGED <<config, pc, totalRequests, plan, closed, workers, enqueued, log>>

\* a type assertion on the document fails: the process ends with a panic
BuildPanic ==
  /\ pc = "produce"
  /\ curOp # NoOp
  /\ requestChan = NoReq
  /\ Built.panicked
  /\ pc' = "panic"
  /\ UNCHANGED <<config, totalRequests, plan, requestChan, closed, workers, enqueued, log>>

\* requestChan <- descriptor, received by worker w (the channel has no buffer)
Send(w) ==
  /\ pc = "produce"
  /\ requestChan # NoReq
  /\ w \in DOMAIN workers
  /\ workers[w].pc = "idle"
  /\ workers' = [workers EXCEPT ![w] = [pc |-> "got", req |-> requestChan, header |-> <<>>]]
  /\ requestChan' = NoReq
  /\ enqueued' = Append(enqueued, requestChan.id)
  /\ curOp' = IF curOp.idx = Len(curOp.fuzzValues) THEN NoOp
              ELSE [curOp EXCEPT !.idx = @ + 1]
  /\ UNCHANGED <<config, pc, totalRequests, todoPaths, curItem, todoMethods, closed, log>>

\* close(requestChan)
Close ==
  /\ pc = "produce"
  /\ curOp = NoOp
  /\ todoMethods = {}
  /\ todoPaths = {}
  /\ closed' = TRUE
  /\ pc' = "wait"
  /\ UNCHANGED <<config, totalRequests, plan, requestChan, workers, enqueued, log>>

\* wg.Wait() returns and main with it
Wait ==
  /\ pc = "wait"
  /\ \A w \in DOMAIN workers : workers[w].pc = "exited"
  /\ pc' = "done"
  /\ UNCHANGED <<config, totalRequests, plan, requestChan, closed, workers, enqueued, log>>

(***************************************************************************)
(* A worker goroutine.  It runs while the process does.                    *)
(***************************************************************************)
Running(w) == pc \in {"produce", "wait"} /\ w \in DOMAIN workers

\* NewRequestFails without the bar.Add(1) of that path
NewRequestFailsNoBar(w) ==
  /\ Running(w)
  /\ workers[w].pc = "got"
  /\ NewRequestError(workers[w].req.d)
  /\ printed' = IF verbose THEN printed + 1 ELSE printed
  /\ dispatched' = BagAdd(dispatched, workers[w].req.id)
  /\ kinds' = kinds \cup {"build error"}
  /\ workers' = [workers EXCEPT ![w] = Idle]
  /\ UNCHANGED <<config, pc, totalRequests, plan, requestChan, closed, enqueued, bar>>

\* http.NewRequest fails: the error is reported and the loop goes on
NewRequestFails(w) ==
  /\ Running(w)
  /\ workers[w].pc = "got"
  /\ NewRequestError(workers[w].req.d)
  /\ printed' = IF verbose THEN printed + 1 ELSE printed
  /\ bar' = IF ~verbose THEN bar + 1 ELSE bar
  /\ dispatched' = BagAdd(dispatched, workers[w].req.id)
  /\ kinds' = kinds \cup {"build error"}
  /\ workers' = [workers EXCEPT ![w] = Idle]
  /\ UNCHANGED <<config, pc, totalRequests, plan, requestChan, closed, enqueued>>

\* the request is built, its headers set, and client.Do called
NewRequestOk(w) ==
  /\ Running(w)
  /\ workers[w].pc = "got"
  /\ ~NewRequestError(workers[w].req.d)
  /\ workers' = [workers EXCEPT ![w].pc = "doing",
                                ![w].header = HeaderOf(workers[w].req.d.headerMap)]
  /\ UNCHANGED <<config, pc, totalRequests, plan, requestChan, closed, enqueued, log>>

\* DoFails as a silent `continue`: nothing is reported for the descriptor
DoFailsDropped(w) ==
  /\ Running(w)
  /\ workers[w].pc = "doing"
  /\ workers' = [workers EXCEPT ![w] = Idle]
  /\ UNCHANGED <<config, pc, totalRequests, plan, requestChan, closed, enqueued, log>>

\* client.Do returns an error
DoFails(w) ==
  /\ Running(w)
  /\ workers[w].pc = "doing"
  /\ printed' = IF verbose THEN printed + 1 ELSE printed
  /\ bar' = IF ~verbose THEN bar + 1 ELSE bar
  /\ dispatched' = BagAdd(dispatched, workers[w].req.id)
  /\ kinds' = kinds \cup {"network error"}
  /\ workers' = [workers EXCEPT ![w] = Idle]
  /\ UNCHANGED <<config, pc, totalRequests, plan, requestChan, closed, enqueued>>

\* client.Do returns a response
DoSucceeds(w) ==
  /\ Running(w)
  /\ workers[w].pc = "doing"
  /\ printed' = IF verbose THEN printed + 1 ELSE printed
  /\ bar' = IF verbose THEN bar ELSE bar + 1
  /\ dispatched' = BagAdd(dispatched, workers[w].req.id)
  /\ kinds' = kinds \cup {"status"}
  /\ workers' = [workers EXCEPT ![w] = Idle]
  /\ UNCHANGED <<config, pc, totalRequests, plan, requestChan, closed, enqueued>>

\* the range over the closed channel ends: wg.Done()
WorkerExit(w) ==
  /\ Running(w)
  /\ closed
  /\ workers[w].pc = "idle"
  /\ workers' = [workers EXCEPT ![w].pc = "exited"]
  /\ UNCHANGED <<config, pc, totalRequests, plan, requestChan, closed, enqueued, log>>

Producer ==
  \/ Count
  \/ CountPanic
  \/ \E item \in api : NextPath(item)
  \/ \E m \in Methods : StartOp(m)
  \/ Build
  \/ BuildPanic
  \/ \E w \in 1..threads : Send(w)
  \/ Close
  \/ Wait

Worker(w) ==
  \/ NewRequestFails(w)
  \/ NewRequestOk(w)
  \/ DoFails(w)
  \/ DoSucceeds(w)
  \/ WorkerExit(w)

Next == Producer \/ \E w \in 1..threads : Worker(w)

\* every document and flag, one worker
Spec == Init /\ [][Next]_vars

\* the worker pool
PoolSpec == PoolInit /\ [][Next]_vars

\* the worker pool under the scheduling of the Go runtime: main and every
\* goroutine that can take a step takes it.  Nothing makes client.Do return:
\* the http.Client is built without a Timeout, and the peer owes no answer.
FairSpec ==
  /\ PoolSpec
  /\ WF_vars(Producer)
  /\ \A w \in 1..MaxThreads : WF_vars(NewRequestFails(w) \/ NewRequestOk(w) \/ WorkerExit(w))

(***************************************************************************)
(* Properties.                                                             *)
(***************************************************************************)
Range(f) == {f[i] : i \in DOMAIN f}

\* the descriptor main is about to send, and what it was built from
Pending == requestChan # NoReq

PendingOp == curItem.ops[requestChan.id.method]

PendingParams == AllParams(curItem.Parameters, PendingOp)

\* the workers that hold plan item id
Holders(id) == {w \in DOMAIN workers : workers[w].req # NoReq /\ workers[w].req.id = id}

\* C1: every descriptor sent over the channel is received by one worker and
\* gets one outcome: no plan item is sent twice, an item that was sent is
\* either held by exactly one worker or has exactly one outcome recorded,
\* nothing else has an outcome, and when main returns every item sent has
\* its outcome and the outcomes reported (lines printed, or steps of the
\* progress bar) are as many as the descriptors sent.
C1_DispatchedExactlyOnce ==
  /\ \A i, j \in 1..Len(enqueued) : i # j => enqueued[i] # enqueued[j]
  /\ DOMAIN dispatched \subseteq Range(enqueued)
  /\ \A id \in Range(enqueued) :
       Cardinality(Holders(id)) + (IF id \in DOMAIN dispatched THEN dispatched[id] ELSE 0) = 1
  /\ pc = "done" =>
       /\ DOMAIN dispatched = Range(enqueued)
       /\ printed + bar = Len(enqueued)

\* a run of several workers that ended with more descriptors than workers
\* and with an outcome of each kind
C1_Witness ==
  /\ pc = "done"
  /\ threads >= 2
  /\ Len(enqueued) > threads
  /\ kinds = {"build error", "network error", "status"}

\* C2: the count made before the first request is the number of descriptors
\* sent: never less than what was sent so far, and equal to it once the
\* producer has closed the channel.
C2_CountIsProduced ==
  /\ Len(enqueued) <= totalRequests
  /\ pc \in {"wait", "done"} => Len(enqueued) = totalRequests

\* a fuzzed run over operations with and without integers
C2_Witness ==
  /\ pc = "done"
  /\ intFuzzing
  /\ totalRequests > 2 * Len(intFuzzValues)
  /\ totalRequests % Len(intFuzzValues) # 0

HasPlaceholder(url) ==
  \E i, j \in 1..Len(url) :
    /\ i + 1 < j
    /\ url[i] = "{"
    /\ url[j] = "}"
    /\ \A k \in (i + 1)..(j - 1) : url[k] \notin {"{", "}"}

\* C3: no descriptor handed to the worker pool has a {name} placeholder
\* left in its URL.
C3_NoPlaceholderLeft == Pending => ~HasPlaceholder(requestChan.d.url)

\* what the claim says getDummyValue returns for an integer schema when
\* fuzzing is on
FuzzedInteger(name, fuzzValue) ==
  IF name \in DOMAIN paramOverrideMap THEN StrV(paramOverrideMap[name])
  ELSE IntV(fuzzValue)

Plain(schema, example) == example = NoValue /\ schema.format # "uuid"

BodySchema(operation) ==
  LET rb == operation.RequestBody
  IN  IF IsMap(rb) /\ IsMap(rb.content) /\ IsMap(rb.content.appjson)
         /\ IsMap(rb.content.appjson.schema)
      THEN rb.content.appjson.schema
      ELSE Absent

\* whether a parameter of the path item or of the operation, or the body's
\* top-level schema, is of type integer
HasIntegerSchema(item, m) ==
  \/ \E i \in 1..Len(item.Parameters) : item.Parameters[i].Schema.type = "integer"
  \/ \E i \in 1..Len(item.ops[m].Parameters) : item.ops[m].Parameters[i].Schema.type = "integer"
  \/ (IsMap(BodySchema(item.ops[m])) /\ BodySchema(item.ops[m]).type = "integer")

\* the descriptors sent for operation m of item, in order
SentFor(item, m) == SelectSeq(enqueued, LAMBDA e : e.path = item.path /\ e.method = m)

\* C5: for each defined and allowed operation the producer sends one
\* descriptor when fuzzing is off or nothing of the operation is an integer,
\* and otherwise 32, one for each entry of the fuzz table; before the
\* channel is closed it has never sent more than that.
C5_OneOrThirtyTwo ==
  \A x \in Eligible :
    LET sent == SentFor(x[1], x[2])
        fuzzed == intFuzzing /\ HasIntegerSchema(x[1], x[2])
    IN  /\ Len(sent) <= (IF fuzzed THEN 32 ELSE 1)
        /\ pc \in {"wait", "done"} =>
             IF fuzzed
             THEN /\ Len(sent) = 32
                  /\ Len(intFuzzValues) = 32
                  /\ \A k \in 1..32 :
                       Cardinality({i \in 1..Len(sent) : sent[i].fuzzValue = intFuzzValues[k]}) = 1
             ELSE Len(sent) = 1 /\ sent[1].fuzzValue = 1000

\* a finished fuzzed run with an operation expanded and one not expanded
C5_Witness ==
  /\ pc = "done"
  /\ intFuzzing
  /\ \E x, y \in Eligible :
       /\ HasIntegerSchema(x[1], x[2])
       /\ ~HasIntegerSchema(y[1], y[2])
       /\ Len(SentFor(x[1], x[2])) = 32
       /\ Len(SentFor(y[1], y[2])) = 1

\* the indices of the parameters declared in the query
QueryIndices == {i \in 1..Len(PendingParams) : PendingParams[i].In = "query"}

QueryNames == {PendingParams[i].Name : i \in QueryIndices}

\* the value synthesised for the last parameter of that name declared in
\* the query
QueryValue(name) ==
  LET last == CHOOSE i \in QueryIndices :
                /\ PendingParams[i].Name = name
                /\ \A j \in QueryIndices : PendingParams[j].Name = name => j <= i
  IN  requestChan.d.values[last]

\* the body the claim says a POST, PUT or PATCH descriptor has
FoldedBody ==
  IF QueryNames = {} THEN <<"{", "}">>
  ELSE MarshalJSON(ObjV([name \in QueryNames |-> QueryValue(name)]))

\* C6 as stated: a POST, PUT or PATCH operation with no declared body
\* schema gets the JSON object of its query-declared parameters as body, {}
\* when it has none.
C6_FoldedBodyWithoutSchema ==
  (Pending /\ requestChan.id.method \in BodyMethods /\ ~IsMap(BodySchema(PendingOp))) =>
    requestChan.d.body = FoldedBody

\* C6, amended: the same, for the operations that declare no requestBody
\* at all.
C6_FoldedBodyWithoutRequestBody ==
  (Pending /\ requestChan.id.method \in BodyMethods /\ ~IsMap(PendingOp.RequestBody)) =>
    requestChan.d.body = FoldedBody

\* a POST without requestBody, with a path parameter and two parameters
\* declared in the query
C6_Witness ==
  /\ Pending
  /\ requestChan.id.method = "POST"
  /\ ~IsMap(PendingOp.RequestBody)
  /\ Cardinality(QueryNames) = 2
  /\ \E i \in 1..Len(PendingParams) : PendingParams[i].In = "path"

\* C7: the run ends, whatever the peers do: every call returns in bounded
\* time, so main returns from wg.Wait (or the process has ended before).
C7_RunEnds == <>(pc \in {"done", "panic"})

\* C8: a document with a malformed schema node does not end the run in an
\* unhandled crash.
C8_NoUnhandledCrash == pc # "panic"

RECURSIVE BagSize(_)
BagSize(b) ==
  IF DOMAIN b = {} THEN 0
  ELSE LET x == CHOOSE y \in DOMAIN b : TRUE
       IN  b[x] + BagSize([y \in DOMAIN b \ {x} |-> b[y]])

\* C9: in non-verbose mode the progress counter is the number of
\* descriptors the workers have finished, whatever the outcome; it is never
\* above the total counted beforehand and equals it when main returns.
C9_ProgressCounter ==
  ~verbose =>
    /\ bar = BagSize(dispatched)
    /\ bar <= totalRequests
    /\ pc = "done" => bar = totalRequests

\* a finished non-verbose run with an outcome of each kind
C9_Witness ==
  /\ pc = "done"
  /\ ~verbose
  /\ bar > 2
  /\ kinds = {"build error", "network error", "status"}

\* the path-level parameters an operation-level parameter does not override
NotOverridden(pathParams, operation) ==
  SelectSeq(pathParams,
            LAMBDA p : \A i \in 1..Len(operation.Parameters) : operation.Parameters[i].Name # p.Name)

\* the descriptor of the pending plan item when built from the parameters
\* merged by name
MergedByName ==
  BuildRequest(normalizeHost(Host), [curItem EXCEPT !.Parameters = NotOverridden(@, PendingOp)], requestChan.id.method, PendingOp, intFuzzing, requestChan.id.fuzzValue, paramOverrideMap, HeaderMap)

\* C10: a parameter of the operation overrides the path item's parameter
\* of the same name: URL and body of every descriptor are those built from
\* the operation-level parameter alone.
C10_OperationLevelOverrides ==
  Pending =>
    /\ requestChan.d.url = MergedByName.url
    /\ requestChan.d.body = MergedByName.body

=============================================================================
